---- MODULE Spec2Model ----
(***************************************************************************)
(* The concept index of the ***plain language extension: FileScanner,      *)
(* ConceptExtractor and PreprocessingService (preprocessor), and the       *)
(* providers that consume it.                                              *)
(*                                                                         *)
(* Text is modelled as it is in the program: a string is a sequence of     *)
(* one-character strings, a line index and a column are zero-based         *)
(* numbers, and the regular expressions of the source are operators that   *)
(* scan those sequences the way the JavaScript engine does.                *)
(***************************************************************************)
EXTENDS Integers, Sequences, FiniteSets, TLC

\* ------------------------------------------------------------------------
\* Characters and strings
\* ------------------------------------------------------------------------

Range(s) == {s[i] : i \in 1..Len(s)}

LowerLetters ==
    <<"a","b","c","d","e","f","g","h","i","j","k","l","m",
      "n","o","p","q","r","s","t","u","v","w","x","y","z">>

UpperLetters ==
    <<"A","B","C","D","E","F","G","H","I","J","K","L","M",
      "N","O","P","Q","R","S","T","U","V","W","X","Y","Z">>

Digits == {"0","1","2","3","4","5","6","7","8","9"}

\* The class [+\-\.0-9A-Z_a-z] of the concept regular expressions.
ConceptChars ==
    Range(LowerLetters) \cup Range(UpperLetters) \cup Digits \cup {"+", "-", ".", "_"}

\* The class \s (and what String.prototype.trim strips).
WhiteSpace == {" ", "\t", "\n", "\r"}

\* String.prototype.toLowerCase, one character.
lowerChar(c) ==
    IF \E i \in 1..Len(UpperLetters) : UpperLetters[i] = c
    THEN LowerLetters[CHOOSE i \in 1..Len(UpperLetters) : UpperLetters[i] = c]
    ELSE c

toLowerCase(s) == [i \in 1..Len(s) |-> lowerChar(s[i])]

\* String.prototype.trim
trim(s) ==
    LET keep == {i \in 1..Len(s) : s[i] \notin WhiteSpace}
    IN  IF keep = {} THEN <<>>
        ELSE LET lo == CHOOSE i \in keep : \A j \in keep : i <= j
                 hi == CHOOSE i \in keep : \A j \in keep : j <= i
             IN  SubSeq(s, lo, hi)

\* content.split('\n'): the lines of a text, the last one empty when the
\* text ends with a line feed.
RECURSIVE split(_)
split(content) ==
    LET nl == {i \in 1..Len(content) : content[i] = "\n"}
    IN  IF nl = {} THEN <<content>>
        ELSE LET k == CHOOSE i \in nl : \A j \in nl : i <= j
             IN  <<SubSeq(content, 1, k - 1)>> \o split(SubSeq(content, k + 1, Len(content)))

\* String.prototype.indexOf: the zero-based offset of the first occurrence
\* of needle in s, -1 when there is none.
indexOf(s, needle) ==
    LET at == {i \in 1..(Len(s) - Len(needle) + 1) : SubSeq(s, i, i + Len(needle) - 1) = needle}
    IN  IF at = {} THEN -1
        ELSE (CHOOSE i \in at : \A j \in at : i <= j) - 1

\* String.prototype.includes, which a test of the extension may be written
\* with by mistake.
includes(s, suffix) == indexOf(s, suffix) >= 0

\* String.prototype.endsWith
endsWith(s, suffix) ==
    /\ Len(s) >= Len(suffix)
    /\ SubSeq(s, Len(s) - Len(suffix) + 1, Len(s)) = suffix

\* ------------------------------------------------------------------------
\* Section headers
\* ------------------------------------------------------------------------

\* trimmedLine.match(/^\*\*\*[^*]+\*\*\*$/)
isSectionHeader(trimmedLine) ==
    /\ Len(trimmedLine) >= 7
    /\ \A i \in 1..3 : trimmedLine[i] = "*"
    /\ \A i \in (Len(trimmedLine) - 2)..Len(trimmedLine) : trimmedLine[i] = "*"
    /\ \A i \in 4..(Len(trimmedLine) - 3) : trimmedLine[i] # "*"

\* trimmedLine.replace(/\*/g, '').toLowerCase().trim()
sectionName(trimmedLine) ==
    trim(toLowerCase(SelectSeq(trimmedLine, LAMBDA c : c # "*")))

DefinitionsName == <<"d","e","f","i","n","i","t","i","o","n","s">>

\* ------------------------------------------------------------------------
\* ConceptExtractor
\* ------------------------------------------------------------------------

\* How many positions of s, from position i on, lie in the set `matching`
\* of the positions whose character is in a character class: the greedy
\* match of the class under + or *.
runLength(s, i, matching) ==
    CHOOSE r \in 0..(Len(s) + 1) :
        /\ \A k \in i..(i + r - 1) : k \in matching
        /\ (i + r) \notin matching

\* /:[+\-\.0-9A-Z_a-z]+:/ tried at position i of text: the position of the
\* closing colon, 0 when the expression does not match there.
conceptRegexAt(text, i) ==
    IF text[i] # ":" THEN 0
    ELSE LET r == runLength(text, i + 1, {k \in 1..Len(text) : text[k] \in ConceptChars})
         IN  IF r >= 1 /\ i + r + 1 <= Len(text) /\ text[i + r + 1] = ":"
             THEN i + r + 1
             ELSE 0

\* The successive results of conceptRegex.exec(text) (flag g) from position
\* `from` until it returns null: match.index (zero-based) and match[0].
RECURSIVE conceptRegexExec(_, _)
conceptRegexExec(text, from) ==
    LET starts == {i \in from..Len(text) : conceptRegexAt(text, i) > 0}
    IN  IF starts = {} THEN <<>>
        ELSE LET i == CHOOSE x \in starts : \A y \in starts : x <= y
                 e == conceptRegexAt(text, i)
             IN  <<[index |-> i - 1, text |-> SubSeq(text, i, e)]>>
                 \o conceptRegexExec(text, e + 1)

\* match[0].slice(1, -1) and candidate.slice(1, -1)
sliceColons(token) == SubSeq(token, 2, Len(token) - 1)

\* The while loop over conceptRegex.exec(prevSpecText): one ConceptDefinition
\* for the first match of each name not yet in pushedConcepts.
RECURSIVE pushMatches(_, _, _, _, _, _)
pushMatches(matches, pushedConcepts, filePath, currentLineIndex, prevSpecText, currentSection) ==
    IF matches = <<>> THEN <<>>
    ELSE LET match == Head(matches)
             conceptName == sliceColons(match.text)
         IN  IF conceptName \in pushedConcepts
             THEN pushMatches(Tail(matches), pushedConcepts, filePath,
                              currentLineIndex, prevSpecText, currentSection)
             ELSE <<[concept   |-> conceptName,
                     filePath  |-> filePath,
                     line      |-> currentLineIndex,
                     character |-> match.index,
                     content   |-> prevSpecText,
                     section   |-> currentSection]>>
                  \o pushMatches(Tail(matches), pushedConcepts \cup {conceptName}, filePath,
                                 currentLineIndex, prevSpecText, currentSection)

\* const hasIndentation = /^\s+/.test(line)
hasIndentation(line) == Len(line) >= 1 /\ line[1] \in WhiteSpace

\* The for loop of extractConceptsFromSpecText from lineIndex (zero-based)
\* on, with the loop's variables currentSection and prevSpecText.
RECURSIVE specTextLoop(_, _, _, _, _)
specTextLoop(filePath, lines, lineIndex, currentSection, prevSpecText) ==
    IF lineIndex >= Len(lines) THEN <<>>
    ELSE LET line == lines[lineIndex + 1]
             trimmedLine == trim(line)
         IN  IF isSectionHeader(trimmedLine)
             THEN specTextLoop(filePath, lines, lineIndex + 1,
                               sectionName(trimmedLine), prevSpecText)
             ELSE IF hasIndentation(line)
             THEN specTextLoop(filePath, lines, lineIndex + 1,
                               currentSection, prevSpecText \o line \o <<"\n">>)
             ELSE pushMatches(conceptRegexExec(prevSpecText, 1), {}, filePath,
                              lineIndex, prevSpecText, currentSection)
                  \o specTextLoop(filePath, lines, lineIndex + 1, currentSection, <<>>)

extractConceptsFromSpecText(filePath, content) ==
    specTextLoop(filePath, split(content), 0, <<>>, <<>>)

\* /:[^\:]+:/ tried at position i of s: the position of the closing colon,
\* 0 when it does not match there.
candidateRegexAt(s, i) ==
    IF i > Len(s) \/ s[i] # ":" THEN 0
    ELSE LET r == runLength(s, i + 1, {k \in 1..Len(s) : s[k] # ":"})
         IN  IF r >= 1 /\ i + r + 1 <= Len(s) THEN i + r + 1 ELSE 0

\* The group (?:,\s*:[^\:]+:)* after a match that ends at position e: where
\* the whole match ends.
RECURSIVE definitionTail(_, _)
definitionTail(s, e) ==
    IF e + 1 <= Len(s) /\ s[e + 1] = ","
    THEN LET w == runLength(s, e + 2, {k \in 1..Len(s) : s[k] \in WhiteSpace})
             t == candidateRegexAt(s, e + 2 + w)
         IN  IF t > 0 THEN definitionTail(s, t) ELSE e
    ELSE e

\* s.match(/^-\s(:[^\:]+:)(?:,\s*:[^\:]+:)*/): definitionMatch[0], and <<>>
\* for null (a match is never empty).
definitionMatch(s) ==
    IF /\ Len(s) >= 2
       /\ s[1] = "-"
       /\ s[2] \in WhiteSpace
       /\ candidateRegexAt(s, 3) > 0
    THEN SubSeq(s, 1, definitionTail(s, candidateRegexAt(s, 3)))
    ELSE <<>>

\* fullMatch.match(/:([^\:]+):/g) || []
RECURSIVE conceptCandidates(_, _)
conceptCandidates(fullMatch, from) ==
    LET starts == {i \in from..Len(fullMatch) : candidateRegexAt(fullMatch, i) > 0}
    IN  IF starts = {} THEN <<>>
        ELSE LET i == CHOOSE x \in starts : \A y \in starts : x <= y
                 e == candidateRegexAt(fullMatch, i)
             IN  <<SubSeq(fullMatch, i, e)>> \o conceptCandidates(fullMatch, e + 1)

\* validConceptRegex as a bug would have it: every candidate passes.
validConceptRegexAnything(candidate) ==
    TRUE

\* validConceptRegex.test(candidate), /^:[+\-\.0-9A-Z_a-z]+:$/
validConceptRegex(candidate) ==
    /\ Len(candidate) >= 3
    /\ candidate[1] = ":"
    /\ candidate[Len(candidate)] = ":"
    /\ \A i \in 2..(Len(candidate) - 1) : candidate[i] \in ConceptChars

\* The for loop over conceptCandidates of one definition line.
RECURSIVE pushCandidates(_, _, _, _, _)
pushCandidates(candidates, filePath, lineIndex, line, currentSection) ==
    IF candidates = <<>> THEN <<>>
    ELSE LET candidate == Head(candidates)
             rest == pushCandidates(Tail(candidates), filePath, lineIndex, line, currentSection)
         IN  IF validConceptRegex(candidate)
             THEN <<[concept   |-> sliceColons(candidate),
                     filePath  |-> filePath,
                     line      |-> lineIndex,
                     character |-> indexOf(line, candidate),
                     content   |-> line,
                     section   |-> currentSection]>> \o rest
             ELSE rest

\* The section-marker branch as a bug would have it: every section is taken
\* for a definitions section.
nextInDefinitionsSectionAnySection(currentSection, inDefinitionsSection) ==
    TRUE

\* The section-marker branch of extractConceptsFromDefinitions: the new
\* value of inDefinitionsSection.
nextInDefinitionsSection(currentSection, inDefinitionsSection) ==
    IF currentSection # DefinitionsName /\ inDefinitionsSection
    THEN FALSE
    ELSE currentSection = DefinitionsName

\* The section-marker branch of the extractors' for loop, run over the lines
\* 0..lineIndex from the state before the loop: currentSection and
\* inDefinitionsSection when the loop has passed the marker check of line
\* lineIndex.
RECURSIVE forwardScan(_, _)
forwardScan(lines, lineIndex) ==
    IF lineIndex < 0
    THEN [currentSection |-> <<>>, inDefinitionsSection |-> FALSE]
    ELSE LET before == forwardScan(lines, lineIndex - 1)
             trimmedLine == trim(lines[lineIndex + 1])
         IN  IF isSectionHeader(trimmedLine)
             THEN [currentSection       |-> sectionName(trimmedLine),
                   inDefinitionsSection |->
                       nextInDefinitionsSection(sectionName(trimmedLine),
                                                before.inDefinitionsSection)]
             ELSE before

\* The for loop of extractConceptsFromDefinitions from lineIndex on.
RECURSIVE definitionsLoop(_, _, _, _, _)
definitionsLoop(filePath, lines, lineIndex, inDefinitionsSection, currentSection) ==
    IF lineIndex >= Len(lines) THEN <<>>
    ELSE LET line == lines[lineIndex + 1]
             trimmedLine == trim(line)
         IN  IF isSectionHeader(trimmedLine)
             THEN definitionsLoop(filePath, lines, lineIndex + 1,
                                  nextInDefinitionsSection(sectionName(trimmedLine),
                                                           inDefinitionsSection),
                                  sectionName(trimmedLine))
             ELSE IF ~inDefinitionsSection
             THEN definitionsLoop(filePath, lines, lineIndex + 1,
                                  inDefinitionsSection, currentSection)
             ELSE pushCandidates(conceptCandidates(definitionMatch(trimmedLine), 1),
                                 filePath, lineIndex, line, currentSection)
                  \o definitionsLoop(filePath, lines, lineIndex + 1,
                                     inDefinitionsSection, currentSection)

extractConceptsFromDefinitions(filePath, content) ==
    definitionsLoop(filePath, split(content), 0, FALSE, <<>>)

\* ------------------------------------------------------------------------
\* The workspace the model explores
\* ------------------------------------------------------------------------

\* definitions a and b on line 1; the indented line mentions a and c; the text ends with a line feed
\*   ***definitions***
\*   - :a:, :b:
\*     :a: has :c:
\*   
TextAB ==
    <<"*","*","*","d","e","f","i","n","i","t","i","o","n","s","*","*","*",
      "\n","-"," ",":","a",":",","," ",":","b",":","\n"," "," ",":","a",":",
      " ","h","a","s"," ",":","c",":","\n">>

\* definition b on line 1; the indented line mentions b and a; an unindented last line
\*   ***Definitions***
\*   - :b:
\*     :b: is :a:
\*   end
TextB ==
    <<"*","*","*","D","e","f","i","n","i","t","i","o","n","s","*","*","*",
      "\n","-"," ",":","b",":","\n"," "," ",":","b",":"," ","i","s"," ",":",
      "a",":","\n","e","n","d">>

\* defines a concept named like a property every JavaScript object inherits
\*   ***definitions***
\*   - :constructor:
\*   
TextCtor ==
    <<"*","*","*","d","e","f","i","n","i","t","i","o","n","s","*","*","*",
      "\n","-"," ",":","c","o","n","s","t","r","u","c","t","o","r",":","\n">>

\* definition widget on line 1; the indented last line mentions widget and
\* color; the text does not end with a line feed
\*   ***definitions***
\*   - :widget:
\*     A :widget: has a :color:.
TextWidget ==
    <<"*","*","*","d","e","f","i","n","i","t","i","o","n","s","*","*","*",
      "\n","-"," ",":","w","i","d","g","e","t",":","\n"," "," ","A"," ",":",
      "w","i","d","g","e","t",":"," ","h","a","s"," ","a"," ",":","c","o",
      "l","o","r",":",".">>

\* list items before any header and in a section of another name; an
\* indented line that mentions a twice, then a header, then an indented list
\* item; a list item that names c twice, a token with a character outside
\* the concept-name alphabet, and f
\*   - :a:
\*   ***notes***
\*   - :b:
\*     :a: :a:
\*   ***definitions***
\*     - :b:
\*   - :c:, :c:, :d e:, :f:
\*   
TextNotes ==
    <<"-"," ",":","a",":","\n","*","*","*","n","o","t","e","s","*","*","*",
      "\n","-"," ",":","b",":","\n"," "," ",":","a",":"," ",":","a",":",
      "\n","*","*","*","d","e","f","i","n","i","t","i","o","n","s","*","*",
      "*","\n"," "," ","-"," ",":","b",":","\n","-"," ",":","c",":",","," ",
      ":","c",":",","," ",":","d"," ","e",":",","," ",":","f",":","\n">>

PathA ==
    <<"a",".","p","l","a","i","n">>

PathB ==
    <<"b",".","p","l","a","i","n">>

PathNote ==
    <<"a",".","p","l","a","i","n",".","t","x","t">>

PlainExtension ==
    <<".","p","l","a","i","n">>

\* The texts a file of the workspace can hold.
Texts == <<TextAB, TextB, TextCtor, TextWidget, TextNotes>>

Paths == {PathA, PathB, PathNote}

\* The order in which fs.readdirSync lists the workspace folder.
Listing == <<PathA, PathNote, PathB>>

\* ------------------------------------------------------------------------
\* Bounds
\* ------------------------------------------------------------------------

\* Calls of rebuildIndex and processFileUpdate plus changes of the workspace
\* in one behaviour.
MaxSteps == 3

\* ------------------------------------------------------------------------
\* State
\* ------------------------------------------------------------------------

VARIABLES
    files,                 \* the workspace: path -> position in Texts of the file's
                           \* text, 0 when the file does not exist
    definedConceptIndex,   \* PreprocessingService.definedConceptIndex: own keys -> list
    usedConceptIndex,      \* PreprocessingService.usedConceptIndex: own keys -> list
    isIndexing,            \* PreprocessingService.isIndexing
    rebuildPc,             \* where the rebuildIndex call in progress is suspended
    plainFiles,            \* the locals of the latest rebuildIndex call
    results,
    updates,               \* the processFileUpdate calls suspended at their await,
                           \* oldest first: the `result` of each and (history)
                           \* whether its removeConceptsFromFile removed anything
    last,                  \* history: the step just taken
    flight,                \* history: "alone" while the operation in flight began
                           \* with nothing else in flight and nothing began or
                           \* changed since, "raced" once another call began while
                           \* it was in flight, "changed" once the workspace changed
    previous,              \* history: the mappings as the latest undisturbed rebuild
                           \* left them, while the workspace is as it was then
    steps,                 \* history: calls and workspace changes so far
    textChangeTimeout,     \* the document whose processFileUpdate the pending
                           \* timer of the text-change listener will call, <<>>
                           \* when no timer is pending
    changed                \* history: the documents that received a text-change
                           \* event and no processFileUpdate call since

vars ==
    <<files, definedConceptIndex, usedConceptIndex, isIndexing, rebuildPc,
      plainFiles, results, updates, last, flight, previous, steps,
      textChangeTimeout, changed>>

\* `{}` as a ConceptIndex: no own key.
EmptyIndex == [conceptName \in {} |-> <<>>]

NoSnapshot == [valid |-> FALSE, defined |-> EmptyIndex, used |-> EmptyIndex]

Step(op, how, path, error, before) ==
    [op |-> op, how |-> how, path |-> path, error |-> error, previous |-> before]

\* Whether some call is suspended at an await.
InFlight == rebuildPc # "idle" \/ updates # <<>>

\* The history of a call that begins now.
Begun == IF ~InFlight THEN "alone" ELSE IF flight = "changed" THEN "changed" ELSE "raced"

\* ------------------------------------------------------------------------
\* FileScanner
\* ------------------------------------------------------------------------

\* scanDirectory over the workspace folder: the existing files whose name
\* ends with '.plain', in listing order.
scanWorkspace(fs) ==
    SelectSeq(Listing, LAMBDA p : fs[p] # 0 /\ endsWith(p, PlainExtension))

\* ------------------------------------------------------------------------
\* ConceptExtractor.processFile
\* ------------------------------------------------------------------------

\* The try block of processFile for every path and text of the model: the
\* two extractions are functions of filePath and content alone, so each is
\* computed once.
Extracted ==
    { [filePath        |-> filePath,
       text            |-> text,
       definedConcepts |-> extractConceptsFromDefinitions(filePath, Texts[text]),
       usedConcepts    |-> extractConceptsFromSpecText(filePath, Texts[text])] :
      filePath \in Paths, text \in 1..Len(Texts) }

\* fs.readFileSync throws for a file that does not exist: the catch block
\* returns empty lists and an error message.
processFile(fs, filePath) ==
    IF fs[filePath] = 0
    THEN [filePath |-> filePath, definedConcepts |-> <<>>, usedConcepts |-> <<>>,
          error |-> TRUE]
    ELSE LET read == CHOOSE e \in Extracted :
                         e.filePath = filePath /\ e.text = fs[filePath]
         IN  [filePath        |-> filePath,
              definedConcepts |-> read.definedConcepts,
              usedConcepts    |-> read.usedConcepts,
              error           |-> FALSE]

\* ------------------------------------------------------------------------
\* PreprocessingService
\* ------------------------------------------------------------------------

\* Names every object literal inherits from Object.prototype: index[name] is
\* then a function or an object, which is truthy and has no push method.
ObjectPrototypeNames ==
    { <<"c","o","n","s","t","r","u","c","t","o","r">>,
      <<"t","o","S","t","r","i","n","g">>,
      <<"v","a","l","u","e","O","f">>,
      <<"_","_","p","r","o","t","o","_","_">> }

\* One of the two inner loops of buildConceptIndex: push each concept onto
\* the list of its name, creating the list when index[name] is falsy. The
\* push throws a TypeError when index[name] is inherited.
RECURSIVE pushConcepts(_, _)
pushConcepts(index, concepts) ==
    IF concepts = <<>> THEN [index |-> index, threw |-> FALSE]
    ELSE LET concept == Head(concepts)
         IN  IF concept.concept \in DOMAIN index
             THEN pushConcepts([index EXCEPT ![concept.concept] = Append(@, concept)],
                               Tail(concepts))
             ELSE IF concept.concept \in ObjectPrototypeNames
             THEN [index |-> index, threw |-> TRUE]
             ELSE pushConcepts(index @@ (concept.concept :> <<concept>>), Tail(concepts))

\* buildConceptIndex(results) on the two mappings: what they hold when it
\* returns or throws.
RECURSIVE buildConceptIndex(_, _, _)
buildConceptIndex(defined, used, rs) ==
    IF rs = <<>> THEN [defined |-> defined, used |-> used, threw |-> FALSE]
    ELSE LET result == Head(rs)
         IN  IF result.error
             THEN buildConceptIndex(defined, used, Tail(rs))
             ELSE LET d == pushConcepts(defined, result.definedConcepts)
                      u == pushConcepts(used, result.usedConcepts)
                  IN  IF d.threw
                      THEN [defined |-> d.index, used |-> used, threw |-> TRUE]
                      ELSE IF u.threw
                      THEN [defined |-> d.index, used |-> u.index, threw |-> TRUE]
                      ELSE buildConceptIndex(d.index, u.index, Tail(rs))

\* One of the two for-in loops of removeConceptsFromFile, as a bug would
\* have it: the filtered list is stored and an empty one is not deleted.
removeFromIndexKeepingEmpty(index, filePath) ==
    [conceptName \in DOMAIN index |->
        SelectSeq(index[conceptName], LAMBDA concept : concept.filePath # filePath)]

\* One of the two for-in loops of removeConceptsFromFile, as a bug would
\* have it: a name with an occurrence of filePath is deleted with all its
\* occurrences.
removeFromIndexWholeName(index, filePath) ==
    LET kept == {conceptName \in DOMAIN index :
                    \A k \in 1..Len(index[conceptName]) :
                        index[conceptName][k].filePath # filePath}
    IN  [conceptName \in kept |-> index[conceptName]]

\* One of the two for-in loops of removeConceptsFromFile: filter every list
\* and delete the names whose list became empty.
removeFromIndex(index, filePath) ==
    LET filtered == [conceptName \in DOMAIN index |->
                        SelectSeq(index[conceptName],
                                  LAMBDA concept : concept.filePath # filePath)]
        kept == {conceptName \in DOMAIN index : Len(filtered[conceptName]) # 0}
    IN  [conceptName \in kept |-> filtered[conceptName]]

\* removeConceptsFromFile as a bug would have it: only the definitions are
\* purged.
removeConceptsFromFileDefinedOnly(defined, used, filePath) ==
    [defined |-> removeFromIndex(defined, filePath), used |-> used]

removeConceptsFromFile(defined, used, filePath) ==
    [defined |-> removeFromIndex(defined, filePath),
     used    |-> removeFromIndex(used, filePath)]

\* What index[conceptName] || [] evaluates to: the list of an own key; for a
\* name without own key that Object.prototype defines, the inherited function
\* or object, which is truthy (its length property: 1 for Object, 0 for
\* toString and valueOf, none, written -1, for the prototype object); the
\* empty list for any other name.
lookup(index, conceptName) ==
    IF conceptName \in DOMAIN index
    THEN [kind |-> "list", concepts |-> index[conceptName],
          length |-> Len(index[conceptName])]
    ELSE IF conceptName \in ObjectPrototypeNames
    THEN [kind     |-> IF conceptName = <<"_","_","p","r","o","t","o","_","_">>
                       THEN "object" ELSE "function",
          concepts |-> <<>>,
          length   |-> IF conceptName = <<"c","o","n","s","t","r","u","c","t","o","r">>
                       THEN 1
                       ELSE IF conceptName = <<"_","_","p","r","o","t","o","_","_">>
                       THEN -1 ELSE 0]
    ELSE [kind |-> "list", concepts |-> <<>>, length |-> 0]

\* PreprocessingService.findConceptDefinition and findConceptUsage.
findConceptDefinition(conceptName) == lookup(definedConceptIndex, conceptName)

findConceptUsage(conceptName) == lookup(usedConceptIndex, conceptName)

Init ==
    /\ files \in [Paths -> 0..Len(Texts)]
    /\ files[PathNote] = 1
    /\ definedConceptIndex = EmptyIndex
    /\ usedConceptIndex = EmptyIndex
    /\ isIndexing = FALSE
    /\ rebuildPc = "idle"
    /\ plainFiles = <<>>
    /\ results = <<>>
    /\ updates = <<>>
    /\ last = Step("new", "", <<>>, FALSE, NoSnapshot)
    /\ flight = "alone"
    /\ previous = NoSnapshot
    /\ steps = 0
    /\ textChangeTimeout = <<>>
    /\ changed = {}

\* rebuildIndex called while isIndexing is set, as a bug would have it: the
\* index is cleared before the flag is looked at.
rebuildIndexSkipClearing ==
    /\ isIndexing
    /\ steps < MaxSteps
    /\ steps' = steps + 1
    /\ definedConceptIndex' = EmptyIndex
    /\ last' = Step("rebuildIndex", "skipped", <<>>, FALSE, NoSnapshot)
    /\ UNCHANGED <<textChangeTimeout, changed>>
    /\ UNCHANGED <<files, usedConceptIndex, isIndexing, rebuildPc, plainFiles,
                   results, updates, flight, previous>>

\* rebuildIndex called while isIndexing is set: it logs and returns.
rebuildIndexSkip ==
    /\ isIndexing
    /\ steps < MaxSteps
    /\ steps' = steps + 1
    /\ last' = Step("rebuildIndex", "skipped", <<>>, FALSE, NoSnapshot)
    /\ UNCHANGED <<textChangeTimeout, changed>>
    /\ UNCHANGED <<files, definedConceptIndex, usedConceptIndex, isIndexing,
                   rebuildPc, plainFiles, results, updates, flight, previous>>

\* rebuildIndex called while isIndexing is clear, up to its first await:
\* the flag is set and definedConceptIndex replaced by {}.
rebuildIndexBegin ==
    /\ ~isIndexing
    /\ steps < MaxSteps
    /\ steps' = steps + 1
    /\ isIndexing' = TRUE
    /\ definedConceptIndex' = EmptyIndex
    /\ rebuildPc' = "scan"
    /\ plainFiles' = <<>>
    /\ results' = <<>>
    /\ flight' = Begun
    /\ last' = Step("rebuildIndex", "begun", <<>>, FALSE, NoSnapshot)
    /\ UNCHANGED <<textChangeTimeout, changed>>
    /\ UNCHANGED <<files, usedConceptIndex, updates, previous>>

rebuildIndex == rebuildIndexSkip \/ rebuildIndexBegin

\* How a rebuildIndex call ends, as a bug would have it: the flag is cleared
\* at the end of the try block, not in a finally block.
rebuildIndexEndNoFinally(how) ==
    /\ isIndexing' = (how # "folded")
    /\ rebuildPc' = "idle"
    /\ last' = Step("rebuildIndexEnd", how, <<>>, FALSE, previous)

\* How every path out of rebuildIndex's try block ends: the finally block
\* clears the flag.
rebuildIndexEnd(how) ==
    /\ isIndexing' = FALSE
    /\ rebuildPc' = "idle"
    /\ last' = Step("rebuildIndexEnd", how, <<>>, FALSE, previous)

\* The history of an ended rebuild: the mappings it left, kept for the next
\* rebuild when this one ran undisturbed and its scan succeeded.
Snapshot(undisturbed, defined, used) ==
    IF undisturbed
    THEN [valid |-> TRUE, defined |-> defined, used |-> used]
    ELSE NoSnapshot

\* await this.fileScanner.scanWorkspace() throws (readdirSync failed): the
\* catch block logs, the finally block runs.
rebuildIndexScanThrows ==
    /\ rebuildPc = "scan"
    /\ rebuildIndexEnd("scanThrew")
    /\ previous' = NoSnapshot
    /\ UNCHANGED <<textChangeTimeout, changed>>
    /\ UNCHANGED <<files, definedConceptIndex, usedConceptIndex, plainFiles,
                   results, updates, flight, steps>>

\* await this.fileScanner.scanWorkspace() returns: with no file the call
\* returns through the finally block, else the loop over plainFiles starts.
rebuildIndexScan ==
    /\ rebuildPc = "scan"
    /\ plainFiles' = scanWorkspace(files)
    /\ IF Len(plainFiles') = 0
       THEN /\ rebuildIndexEnd("noFiles")
            /\ previous' = Snapshot(flight = "alone", definedConceptIndex, usedConceptIndex)
       ELSE /\ rebuildPc' = "process"
            /\ last' = Step("rebuildIndexScan", "", <<>>, FALSE, NoSnapshot)
            /\ UNCHANGED <<isIndexing, previous>>
    /\ UNCHANGED <<textChangeTimeout, changed>>
    /\ UNCHANGED <<files, definedConceptIndex, usedConceptIndex, results,
                   updates, flight, steps>>

\* One iteration of `for (const filePath of plainFiles)`: the file is read
\* and extracted, the call awaits the result.
rebuildIndexProcess ==
    /\ rebuildPc = "process"
    /\ Len(results) < Len(plainFiles)
    /\ results' = Append(results, processFile(files, plainFiles[Len(results) + 1]))
    /\ last' = Step("rebuildIndexProcess", "", plainFiles[Len(results) + 1], FALSE, NoSnapshot)
    /\ UNCHANGED <<textChangeTimeout, changed>>
    /\ UNCHANGED <<files, definedConceptIndex, usedConceptIndex, isIndexing,
                   rebuildPc, plainFiles, updates, flight, previous, steps>>

\* After the last await: this.buildConceptIndex(results), the log line (or
\* the catch block when the fold threw), the finally block.
rebuildIndexFold ==
    /\ rebuildPc = "process"
    /\ Len(results) = Len(plainFiles)
    /\ LET built == buildConceptIndex(definedConceptIndex, usedConceptIndex, results)
       IN  /\ definedConceptIndex' = built.defined
           /\ usedConceptIndex' = built.used
           /\ rebuildIndexEnd(IF built.threw THEN "foldThrew" ELSE "folded")
           /\ previous' = Snapshot(flight = "alone", built.defined, built.used)
    /\ UNCHANGED <<textChangeTimeout, changed>>
    /\ UNCHANGED <<files, plainFiles, results, updates, flight, steps>>

\* The concepts of filePath in index: the lists of removeConceptsFromFile's
\* filter, turned round.
ConceptsOfFile(index, filePath) ==
    LET mine == [conceptName \in DOMAIN index |->
                    SelectSeq(index[conceptName],
                              LAMBDA concept : concept.filePath = filePath)]
    IN  [conceptName \in {n \in DOMAIN index : Len(mine[n]) # 0} |-> mine[conceptName]]

\* History: what a removeConceptsFromFile(filePath) finds to remove.
Removal(defined, used, filePath) ==
    LET mineDefined == ConceptsOfFile(defined, filePath)
        mineUsed == ConceptsOfFile(used, filePath)
    IN  IF \/ \E n \in DOMAIN mineDefined : mineDefined[n] = defined[n]
           \/ \E n \in DOMAIN mineUsed : mineUsed[n] = used[n]
        THEN "lastOfAName"
        ELSE IF DOMAIN mineDefined # {} \/ DOMAIN mineUsed # {}
        THEN "some"
        ELSE "nothing"

\* processFileUpdate(filePath) up to its await: nothing for a path that
\* does not end with '.plain'; else the file's concepts are removed and the
\* file is read and extracted.
processFileUpdateStart(filePath) ==
    /\ steps < MaxSteps
    /\ steps' = steps + 1
    /\ IF ~endsWith(filePath, PlainExtension)
       THEN /\ last' = Step("processFileUpdate", "returned", filePath, FALSE, NoSnapshot)
            /\ UNCHANGED <<definedConceptIndex, usedConceptIndex, updates, flight,
                           previous>>
       ELSE LET removed == removeConceptsFromFile(definedConceptIndex, usedConceptIndex,
                                                  filePath)
                what == Removal(definedConceptIndex, usedConceptIndex, filePath)
            IN  /\ definedConceptIndex' = removed.defined
                /\ usedConceptIndex' = removed.used
                /\ updates' = Append(updates, [result  |-> processFile(files, filePath),
                                               removed |-> what # "nothing"])
                /\ flight' = Begun
                /\ previous' = NoSnapshot
                /\ last' = Step("processFileUpdate", what, filePath, FALSE, NoSnapshot)
    /\ changed' = changed \ {filePath}
    /\ UNCHANGED <<files, isIndexing, rebuildPc, plainFiles, results>>

\* processFileUpdate(filePath) called by the file watcher or by any other
\* caller than the timer of the text-change listener.
processFileUpdate(filePath) ==
    /\ processFileUpdateStart(filePath)
    /\ UNCHANGED textChangeTimeout

\* The oldest suspended processFileUpdate call resumes after its await:
\* this.buildConceptIndex([result]); a throw rejects the call's promise.
processFileUpdateResume ==
    /\ updates # <<>>
    /\ LET result == Head(updates).result
           built == buildConceptIndex(definedConceptIndex, usedConceptIndex, <<result>>)
       IN  /\ definedConceptIndex' = built.defined
           /\ usedConceptIndex' = built.used
           /\ last' = Step("processFileUpdateEnd",
                           IF Head(updates).removed THEN "replaced" ELSE "added",
                           result.filePath, result.error, NoSnapshot)
    /\ updates' = Tail(updates)
    /\ UNCHANGED <<textChangeTimeout, changed>>
    /\ UNCHANGED <<files, isIndexing, rebuildPc, plainFiles, results, flight,
                   previous, steps>>

\* The workspace changes: a file is created, edited or deleted.
changeFile(filePath, text) ==
    /\ steps < MaxSteps
    /\ steps' = steps + 1
    /\ endsWith(filePath, PlainExtension)
    /\ files[filePath] # text
    /\ files' = [files EXCEPT ![filePath] = text]
    /\ flight' = "changed"
    /\ previous' = NoSnapshot
    /\ last' = Step("changeFile", "", filePath, FALSE, NoSnapshot)
    /\ UNCHANGED <<textChangeTimeout, changed>>
    /\ UNCHANGED <<definedConceptIndex, usedConceptIndex, isIndexing, rebuildPc,
                   plainFiles, results, updates>>

\* The steps by which a rebuildIndex call in progress goes on.
rebuildIndexResume ==
    \/ rebuildIndexScanThrows
    \/ rebuildIndexScan
    \/ rebuildIndexProcess
    \/ rebuildIndexFold

Next ==
    \/ rebuildIndex
    \/ rebuildIndexResume
    \/ \E filePath \in Paths : processFileUpdate(filePath)
    \/ processFileUpdateResume
    \/ \E filePath \in Paths, text \in 0..Len(Texts) : changeFile(filePath, text)

Spec == Init /\ [][Next]_vars

\* The microtask queue runs every continuation of a call that awaits a
\* settled promise.
FairSpec ==
    /\ Spec
    /\ WF_vars(rebuildIndexResume)
    /\ WF_vars(processFileUpdateResume)

\* The text-change listener (onDidChangeTextDocument) for an event of a
\* document of language 'plain' and scheme 'file': clearTimeout of the one
\* timer the service holds, whatever document it was set for, and
\* setTimeout of a new one for the event's document.
onDidChangeTextDocument(filePath) ==
    /\ steps < MaxSteps
    /\ steps' = steps + 1
    /\ textChangeTimeout' = filePath
    /\ changed' = changed \cup {filePath}
    /\ last' = Step("onDidChangeTextDocument", "", filePath, FALSE, NoSnapshot)
    /\ UNCHANGED <<files, definedConceptIndex, usedConceptIndex, isIndexing, rebuildPc,
                   plainFiles, results, updates, flight, previous>>

\* 500 ms have passed without another event: the pending timer calls
\* processFileUpdate for its document.
textChangeTimeoutFires ==
    /\ textChangeTimeout # <<>>
    /\ processFileUpdateStart(textChangeTimeout)
    /\ textChangeTimeout' = <<>>

\* The service with the text-change listener of the editor.
EditorNext ==
    \/ Next
    \/ \E filePath \in {PathA, PathB} : onDidChangeTextDocument(filePath)
    \/ textChangeTimeoutFires

EditorSpec == Init /\ [][EditorNext]_vars

\* ------------------------------------------------------------------------
\* PlainHoverProvider and PlainDefinitionProvider
\* ------------------------------------------------------------------------

\* The backward loop of isAConceptDefinition as a bug would have it: it
\* starts at the line above position.line.
headerBefore(lines, line) ==
    LET headers == {i \in 0..(line - 1) : isSectionHeader(trim(lines[i + 1]))}
    IN  IF headers = {} THEN -1
        ELSE CHOOSE i \in headers : \A j \in headers : j <= i

\* The backward loop of isAConceptDefinition, for (let i = position.line;
\* i >= 0; i--): the zero-based index of the line it breaks at, the nearest
\* header line at or before position.line, -1 when it finds none.
headerAtOrBefore(lines, line) ==
    LET headers == {i \in 0..line : isSectionHeader(trim(lines[i + 1]))}
    IN  IF headers = {} THEN -1
        ELSE CHOOSE i \in headers : \A j \in headers : j <= i

\* The section the backward loop derives for position.line: the name of the
\* header it breaks at, <<>> when there is none.
sectionAt(lines, line) ==
    IF headerAtOrBefore(lines, line) < 0 THEN <<>>
    ELSE sectionName(trim(lines[headerAtOrBefore(lines, line) + 1]))

\* isAConceptDefinition(document, position, word) of the hover and the
\* definition provider, for the document with the given lines and
\* position.line = line: the definition regex is matched against the text
\* of the line as it is, not trimmed.
isAConceptDefinition(lines, line, word) ==
    /\ sectionAt(lines, line) = DefinitionsName
    /\ LET candidates == conceptCandidates(definitionMatch(lines[line + 1]), 1)
       IN  \E i \in 1..Len(candidates) : sliceColons(candidates[i]) = word

\* ------------------------------------------------------------------------
\* PlainRenameProvider
\* ------------------------------------------------------------------------

\* /^[+\-\.0-9A-Z_a-z]+$/.test(newName)
validNewName(newName) ==
    /\ Len(newName) >= 1
    /\ \A k \in 1..Len(newName) : newName[k] \in ConceptChars

\* The replacement of one occurrence as a bug would have it: the range
\* starts at the opening colon.
textEditFromColon(occurrence, oldName, newName) ==
    [line    |-> occurrence.line,
     start   |-> occurrence.character,
     end     |-> occurrence.character + Len(oldName),
     newText |-> newName]

\* vscode.TextEdit.replace(range, newName) for one occurrence: the range is
\* on occurrence.line, from occurrence.character + 1 to
\* occurrence.character + 1 + oldName.length.
textEdit(occurrence, oldName, newName) ==
    [line    |-> occurrence.line,
     start   |-> occurrence.character + 1,
     end     |-> occurrence.character + 1 + Len(oldName),
     newText |-> newName]

\* The keys of fileGroups in insertion order: the file paths of the
\* occurrences, each once, in the order of their first occurrence.
RECURSIVE fileGroupKeys(_, _)
fileGroupKeys(usages, seen) ==
    IF usages = <<>> THEN <<>>
    ELSE IF Head(usages).filePath \in seen
    THEN fileGroupKeys(Tail(usages), seen)
    ELSE <<Head(usages).filePath>>
         \o fileGroupKeys(Tail(usages), seen \cup {Head(usages).filePath})

\* The WorkspaceEdit: for each key of fileGroups, the text edits of its
\* occurrences in the order of the usages list.
workspaceEdit(usages, oldName, newName) ==
    LET keys == fileGroupKeys(usages, {})
    IN  [g \in 1..Len(keys) |->
            LET occurrences == SelectSeq(usages,
                                   LAMBDA occurrence : occurrence.filePath = keys[g])
            IN  [filePath  |-> keys[g],
                 textEdits |-> [i \in 1..Len(occurrences) |->
                                   textEdit(occurrences[i], oldName, newName)]]]

\* provideRenameEdits as a bug would have it: the new name is validated
\* after the usages were looked up.
provideRenameEditsValidatingLate(oldName, newName) ==
    IF oldName = <<>>
    THEN [outcome |-> "undefined", edits |-> <<>>]
    ELSE LET usages == findConceptUsage(oldName)
         IN  IF usages.length = 0
             THEN [outcome |-> "undefined", edits |-> <<>>]
             ELSE IF ~validNewName(newName)
             THEN [outcome |-> "throwsInvalidName", edits |-> <<>>]
             ELSE IF usages.kind # "list"
             THEN [outcome |-> "throwsTypeError", edits |-> <<>>]
             ELSE [outcome |-> "workspaceEdit",
                   edits   |-> workspaceEdit(usages.concepts, oldName, newName)]

\* provideRenameEdits for the word at the position (oldName, <<>> when
\* getWordRangeAtPosition finds none) and newName: it returns undefined,
\* throws the invalid-name Error, throws a TypeError (for...of over an
\* inherited value that is not iterable) or returns the WorkspaceEdit.
provideRenameEdits(oldName, newName) ==
    IF oldName = <<>>
    THEN [outcome |-> "undefined", edits |-> <<>>]
    ELSE IF ~validNewName(newName)
    THEN [outcome |-> "throwsInvalidName", edits |-> <<>>]
    ELSE LET usages == findConceptUsage(oldName)
         IN  IF usages.length = 0
             THEN [outcome |-> "undefined", edits |-> <<>>]
             ELSE IF usages.kind # "list"
             THEN [outcome |-> "throwsTypeError", edits |-> <<>>]
             ELSE [outcome |-> "workspaceEdit",
                   edits   |-> workspaceEdit(usages.concepts, oldName, newName)]

\* ------------------------------------------------------------------------
\* Claims
\* ------------------------------------------------------------------------

PlainPaths == {PathA, PathB}

\* What extracting every discoverable document of the workspace and folding
\* the results into an empty index gives.
FreshIndex(fs) ==
    LET found == scanWorkspace(fs)
    IN  buildConceptIndex(EmptyIndex, EmptyIndex,
                          [i \in 1..Len(found) |-> processFile(fs, found[i])])

\* What extracting one document and folding it into an empty index gives.
FreshFile(fs, filePath) ==
    buildConceptIndex(EmptyIndex, EmptyIndex, <<processFile(fs, filePath)>>)

\* A rebuildIndex call has just ended after its scan succeeded.
RebuildEnded == last.op = "rebuildIndexEnd" /\ last.how # "scanThrew"

\* C1: when rebuildIndex runs to completion with nothing else in flight,
\* both mappings hold exactly what extracting every discoverable document
\* and folding into an empty index gives; no earlier entry survives.
C1_RebuildReplacesBothMappings ==
    (RebuildEnded /\ flight = "alone") =>
        /\ definedConceptIndex = FreshIndex(files).defined
        /\ usedConceptIndex = FreshIndex(files).used

\* C2: rebuildIndex is idempotent: on an unchanged workspace a second
\* undisturbed run leaves both mappings as the first run left them.
C2_RebuildIsIdempotent ==
    (RebuildEnded /\ flight = "alone" /\ last.previous.valid) =>
        /\ definedConceptIndex = last.previous.defined
        /\ usedConceptIndex = last.previous.used

\* The documents the call that has just ended read.
DocumentsOfLast ==
    IF last.op = "processFileUpdateEnd" THEN {last.path}
    ELSE IF last.op = "rebuildIndexEnd" /\ last.how = "folded" THEN Range(plainFiles)
    ELSE {}

\* C3: once processFileUpdate calls that overlapped each other or a rebuild
\* have all completed, each mapping holds the occurrences of the latest
\* extraction of each document they read exactly once, and nothing else of
\* that document.
C3_OverlappedCallsLeaveDocumentOnce ==
    (flight = "raced" /\ ~InFlight) =>
        \A filePath \in DocumentsOfLast :
            /\ ConceptsOfFile(definedConceptIndex, filePath) = FreshFile(files, filePath).defined
            /\ ConceptsOfFile(usedConceptIndex, filePath) = FreshFile(files, filePath).used

\* C4: a rebuildIndex call made while a rebuild is in progress changes
\* neither mapping, nor the flag, nor where the rebuild in progress stands
\* and what it has scanned and extracted.
C4_BusyRebuildIsNoOp ==
    [][(last'.op = "rebuildIndex" /\ isIndexing) =>
          UNCHANGED <<definedConceptIndex, usedConceptIndex, isIndexing, rebuildPc,
                      plainFiles, results, updates>>]_vars

\* C4 happens: a call is skipped while the rebuild in progress has scanned
\* files and the definitions mapping is not empty.
C4_Witness ==
    /\ last.op = "rebuildIndex"
    /\ last.how = "skipped"
    /\ isIndexing
    /\ plainFiles # <<>>
    /\ DOMAIN definedConceptIndex # {}

\* C5: the busy flag is set exactly while a rebuild is in progress, every
\* rebuild that set it clears it, however it ends, and a rebuild requested
\* when none is in progress is not skipped.
C5_BusyFlagIsReleased ==
    /\ [](isIndexing <=> rebuildPc # "idle")
    /\ (isIndexing ~> ~isIndexing)
    /\ [][(last'.op = "rebuildIndex" /\ rebuildPc = "idle") => last'.how = "begun"]_vars

\* C5 happens: a rebuild whose fold threw has ended with the flag clear.
C5_Witness ==
    /\ last.op = "rebuildIndexEnd"
    /\ last.how = "foldThrew"
    /\ ~isIndexing

\* C6: after processFileUpdate(D) ran to completion with nothing else in
\* flight, the occurrences of D in each mapping are those of extracting D
\* and folding into an empty index, whatever the mappings held before (so a
\* second run changes nothing).
C6_UpdateReplacesDocument ==
    (last.op = "processFileUpdateEnd" /\ flight = "alone") =>
        /\ ConceptsOfFile(definedConceptIndex, last.path) = FreshFile(files, last.path).defined
        /\ ConceptsOfFile(usedConceptIndex, last.path) = FreshFile(files, last.path).used

\* C6 happens: an undisturbed update has replaced occurrences the document
\* had in the index by a non-empty fresh extraction.
C6_Witness ==
    /\ last.op = "processFileUpdateEnd"
    /\ flight = "alone"
    /\ last.how = "replaced"
    /\ DOMAIN FreshFile(files, last.path).defined # {}
    /\ DOMAIN FreshFile(files, last.path).used # {}

\* C7: no concept name of either mapping maps to an empty list.
C7_NoEmptyList ==
    /\ \A conceptName \in DOMAIN definedConceptIndex :
           Len(definedConceptIndex[conceptName]) > 0
    /\ \A conceptName \in DOMAIN usedConceptIndex :
           Len(usedConceptIndex[conceptName]) > 0

\* C7 happens: a purge has just removed the last occurrence of a name.
C7_Witness ==
    /\ last.op = "processFileUpdate"
    /\ last.how = "lastOfAName"

\* C8: processFileUpdate of a path that does not end with '.plain' changes
\* neither mapping nor the flag and suspends no call to extract anything.
C8_OtherExtensionIsNoOp ==
    [][(last'.op = "processFileUpdate" /\ last'.path \notin PlainPaths) =>
          UNCHANGED <<definedConceptIndex, usedConceptIndex, isIndexing, rebuildPc,
                      plainFiles, results, updates>>]_vars

\* C8 happens: the call was made for an existing file of another extension
\* while the mappings were not empty.
C8_Witness ==
    /\ last.op = "processFileUpdate"
    /\ last.path = PathNote
    /\ files[PathNote] # 0
    /\ DOMAIN definedConceptIndex # {}
    /\ DOMAIN usedConceptIndex # {}

\* Whether occurrence `concept` is in the list of its name in index.
Holds(index, concept) ==
    /\ concept.concept \in DOMAIN index
    /\ concept \in Range(index[concept.concept])

\* C9: when a rebuild that could not read a document has ended, neither
\* mapping holds an occurrence of that document and both hold every
\* occurrence of every document it could read.
C9_UnreadableDocumentIsLeftOut ==
    (/\ last.op = "rebuildIndexEnd"
     /\ last.how \in {"folded", "foldThrew"}
     /\ \E i \in 1..Len(results) : results[i].error) =>
        \A i \in 1..Len(results) :
            IF results[i].error
            THEN /\ DOMAIN ConceptsOfFile(definedConceptIndex, results[i].filePath) = {}
                 /\ DOMAIN ConceptsOfFile(usedConceptIndex, results[i].filePath) = {}
            ELSE /\ \A concept \in Range(results[i].definedConcepts) :
                        Holds(definedConceptIndex, concept)
                 /\ \A concept \in Range(results[i].usedConcepts) :
                        Holds(usedConceptIndex, concept)

\* C10: when a processFileUpdate(D) whose read of D failed has completed,
\* neither mapping holds an occurrence of D.
C10_DeletedDocumentIsPurged ==
    (last.op = "processFileUpdateEnd" /\ last.error) =>
        /\ DOMAIN ConceptsOfFile(definedConceptIndex, last.path) = {}
        /\ DOMAIN ConceptsOfFile(usedConceptIndex, last.path) = {}

\* The names looked up and renamed: the names of the texts, a name no text
\* mentions and names every object inherits.
QueriedNames ==
    { <<"a">>, <<"b">>, <<"c">>, <<"w","i","d","g","e","t">>,
      <<"c","o","l","o","r">>, <<"f","o","o">> } \cup ObjectPrototypeNames

\* C11: findConceptDefinition and findConceptUsage return a list for every
\* name in every reachable state, the empty list for a name that is not a
\* key of the mapping.
C11_LookupReturnsAList ==
    \A conceptName \in QueriedNames :
        /\ findConceptDefinition(conceptName).kind = "list"
        /\ findConceptUsage(conceptName).kind = "list"
        /\ conceptName \notin DOMAIN definedConceptIndex =>
               findConceptDefinition(conceptName).concepts = <<>>
        /\ conceptName \notin DOMAIN usedConceptIndex =>
               findConceptUsage(conceptName).concepts = <<>>

\* The new names a rename is asked for: a valid one, one with a character
\* outside the alphabet and the empty one.
ValidName == <<"b","a","r">>

InvalidNames == { <<"b","a","r","b","a","z","!">>, <<>> }

\* The usage occurrences of oldName that are in document filePath, in the
\* order of the usages list.
UsagesIn(oldName, filePath) ==
    SelectSeq(usedConceptIndex[oldName],
              LAMBDA occurrence : occurrence.filePath = filePath)

\* C12: for an old name with usage occurrences and a valid new name the
\* rename plan has one batch per document that has a usage occurrence of the
\* old name, and in it one replacement per usage occurrence of that
\* document: on the recorded line, from the recorded column + 1 to the
\* recorded column + 1 + the length of the old name, substituting the new
\* name.
C12_PlanReplacesEachUsage ==
    \A oldName \in QueriedNames \cap DOMAIN usedConceptIndex :
        LET plan == provideRenameEdits(oldName, ValidName)
        IN  /\ plan.outcome = "workspaceEdit"
            /\ \A g, h \in 1..Len(plan.edits) :
                   plan.edits[g].filePath = plan.edits[h].filePath => g = h
            /\ {plan.edits[g].filePath : g \in 1..Len(plan.edits)}
                   = {occurrence.filePath : occurrence \in Range(usedConceptIndex[oldName])}
            /\ \A g \in 1..Len(plan.edits) :
                   LET occurrences == UsagesIn(oldName, plan.edits[g].filePath)
                       textEdits == plan.edits[g].textEdits
                   IN  /\ Len(textEdits) = Len(occurrences)
                       /\ \A i \in 1..Len(textEdits) :
                              /\ textEdits[i].line = occurrences[i].line
                              /\ textEdits[i].start = occurrences[i].character + 1
                              /\ textEdits[i].end
                                     = occurrences[i].character + 1 + Len(oldName)
                              /\ textEdits[i].newText = ValidName

\* C12 happens: the plan of a name used in two documents has two batches,
\* one of them with two replacements.
C12_Witness ==
    \E oldName \in QueriedNames \cap DOMAIN usedConceptIndex :
        LET plan == provideRenameEdits(oldName, ValidName)
        IN  /\ Len(plan.edits) = 2
            /\ \E g \in 1..2 : Len(plan.edits[g].textEdits) = 2

\* Whether the plan has, in the batch of document filePath, a replacement on
\* the given line that covers the name of the token whose opening colon is
\* at the given column.
Replaces(plan, filePath, line, column, oldName) ==
    /\ plan.outcome = "workspaceEdit"
    /\ \E g \in 1..Len(plan.edits) :
           /\ plan.edits[g].filePath = filePath
           /\ \E i \in 1..Len(plan.edits[g].textEdits) :
                  /\ plan.edits[g].textEdits[i].line = line
                  /\ plan.edits[g].textEdits[i].start = column + 1
                  /\ plan.edits[g].textEdits[i].end = column + 1 + Len(oldName)

\* C13: a rename also rewrites the definition line: for every definition
\* occurrence of the old name in the definitions mapping the plan has a
\* replacement in that document, on that line, covering the name of that
\* definition token.
C13_PlanRewritesDefinitionLine ==
    \A oldName \in QueriedNames \cap DOMAIN definedConceptIndex :
        \A definition \in Range(definedConceptIndex[oldName]) :
            Replaces(provideRenameEdits(oldName, ValidName), definition.filePath,
                     definition.line, definition.character, oldName)

\* The index is up to date: no call is in flight and both mappings hold
\* what extracting the workspace as it is gives.
UpToDate ==
    /\ ~InFlight
    /\ ~FreshIndex(files).threw
    /\ definedConceptIndex = FreshIndex(files).defined
    /\ usedConceptIndex = FreshIndex(files).used

\* The lines of the document at filePath.
LinesOf(filePath) == split(Texts[files[filePath]])

\* C14: with the index up to date, every ':old:' token of every indexed
\* document is covered by a replacement of the plan of renaming old: one in
\* that document, on the token's line, covering the name of the token.
C14_PlanCoversEveryToken ==
    UpToDate =>
        \A filePath \in {p \in PlainPaths : files[p] # 0} :
            \A l \in 1..Len(LinesOf(filePath)) :
                \A token \in Range(conceptRegexExec(LinesOf(filePath)[l], 1)) :
                    Replaces(provideRenameEdits(sliceColons(token.text), ValidName),
                             filePath, l - 1, token.index, sliceColons(token.text))

\* C15: a rename whose new name is not made of one or more characters of
\* the concept-name alphabet is rejected with the invalid-name error,
\* whatever the index holds for the old name, and produces no replacement
\* batch.
C15_InvalidNewNameIsRejected ==
    \A oldName \in QueriedNames, newName \in InvalidNames :
        /\ provideRenameEdits(oldName, newName).outcome = "throwsInvalidName"
        /\ provideRenameEdits(oldName, newName).edits = <<>>

\* C15 happens: the old name of a rejected rename has usage occurrences in
\* two documents, and the same rename to a valid name gives a plan.
C15_Witness ==
    \E oldName \in QueriedNames \cap DOMAIN usedConceptIndex :
        /\ Len(provideRenameEdits(oldName, ValidName).edits) = 2
        /\ \A newName \in InvalidNames :
               provideRenameEdits(oldName, newName).outcome = "throwsInvalidName"

\* C16: rename-plan generation for an old name without usage occurrences
\* and a valid new name fails: it throws instead of returning.
C16_NoUsageFails ==
    \A oldName \in QueriedNames \ DOMAIN usedConceptIndex :
        provideRenameEdits(oldName, ValidName).outcome
            \in {"throwsInvalidName", "throwsTypeError"}

\* An undisturbed processFileUpdate has just indexed the document at
\* last.path, which it could read.
Indexed ==
    /\ last.op = "processFileUpdateEnd"
    /\ flight = "alone"
    /\ ~last.error

\* The occurrences of document filePath in index, under every name.
OccurrencesOf(index, filePath) ==
    UNION {Range(ConceptsOfFile(index, filePath)[conceptName]) :
           conceptName \in DOMAIN ConceptsOfFile(index, filePath)}

\* The name of the section enclosing line l (from 1) of lines: that of the
\* nearest header line above it, <<>> when there is none.
EnclosingSection(lines, l) ==
    LET headers == {h \in 1..(l - 1) : isSectionHeader(trim(lines[h]))}
    IN  IF headers = {} THEN <<>>
        ELSE sectionName(trim(lines[CHOOSE h \in headers : \A k \in headers : k <= h]))

ListItemAB == <<"-"," ",":","a",":",","," ",":","b",":">>

\* C17: a definition occurrence is recorded for a line only if the section
\* enclosing the line is named 'definitions' and the trimmed line is a list
\* item of colon-wrapped names; the list item '- :a:, :b:' in a definitions
\* section yields exactly two definition occurrences, one of a and one of
\* b, both with the index of that line.
C17_DefinitionsOnlyFromDefinitionsSection ==
    Indexed =>
        LET lines == LinesOf(last.path)
            definitions == OccurrencesOf(definedConceptIndex, last.path)
        IN  /\ \A definition \in definitions :
                   /\ definition.line + 1 \in 1..Len(lines)
                   /\ ~isSectionHeader(trim(lines[definition.line + 1]))
                   /\ EnclosingSection(lines, definition.line + 1) = DefinitionsName
                   /\ definitionMatch(trim(lines[definition.line + 1])) # <<>>
            /\ \A l \in 1..Len(lines) :
                   (lines[l] = ListItemAB /\ EnclosingSection(lines, l) = DefinitionsName) =>
                       /\ {definition.concept :
                              definition \in {d \in definitions : d.line = l - 1}}
                              = {<<"a">>, <<"b">>}
                       /\ \A conceptName \in {<<"a">>, <<"b">>} :
                              Len(SelectSeq(definedConceptIndex[conceptName],
                                      LAMBDA d : d.filePath = last.path /\ d.line = l - 1)) = 1

\* C17 happens: the document just indexed has the list item '- :a:, :b:'
\* in a definitions section, and the other document, indexed before, has
\* list items before any header and in a section of another name, and
\* only its definitions section gave definition occurrences.
C17_Witness ==
    /\ Indexed
    /\ Texts[files[last.path]] = TextAB
    /\ \E other \in PlainPaths \ {last.path} :
           /\ files[other] # 0
           /\ Texts[files[other]] = TextNotes
           /\ {d.concept : d \in OccurrencesOf(definedConceptIndex, other)}
                  = {<<"b">>, <<"c">>, <<"f">>}
           /\ \A d \in OccurrencesOf(definedConceptIndex, other) : d.line \in {5, 6}

\* C18: usage scanning covers unindented lines in every section: every
\* concept a definition line of the document just indexed defines has a
\* usage occurrence in that document.
C18_DefinitionLineIsAUsage ==
    Indexed =>
        \A definition \in OccurrencesOf(definedConceptIndex, last.path) :
            \E usage \in OccurrencesOf(usedConceptIndex, last.path) :
                usage.concept = definition.concept

\* The lines (from 1) of the continuation block whose first line is line l:
\* l and the indented lines that follow it without interruption.
BlockLines(lines, l) ==
    {k \in l..Len(lines) : \A j \in (l + 1)..k : hasIndentation(lines[j])}

\* The text of the lines l..m of the document, a line feed after each.
RECURSIVE BlockText(_, _, _)
BlockText(lines, l, m) ==
    IF l > m THEN <<>> ELSE lines[l] \o <<"\n">> \o BlockText(lines, l + 1, m)

\* The names of the concept tokens on the given lines.
NamesOn(lines, ls) ==
    UNION {{sliceColons(token.text) : token \in Range(conceptRegexExec(lines[l], 1))} :
           l \in ls}

\* C19: every usage occurrence of the document just indexed is anchored at
\* the first, unindented line of a continuation block whose text contains
\* the token, and its content is the text of the whole block, the anchor
\* line and its indented continuation lines; in the document with the lines
\* '***definitions***', '- :widget:', '  A :widget: has a :color:.' the
\* usages of widget and of color are anchored at the '- :widget:' line.
C19_UsageAnchoredAtBlockStart ==
    Indexed =>
        LET lines == LinesOf(last.path)
            usages == OccurrencesOf(usedConceptIndex, last.path)
        IN  /\ \A usage \in usages :
                   LET block == BlockLines(lines, usage.line + 1)
                   IN  /\ ~hasIndentation(lines[usage.line + 1])
                       /\ usage.concept \in NamesOn(lines, block)
                       /\ usage.content
                              = BlockText(lines, usage.line + 1,
                                          CHOOSE m \in block : \A k \in block : k <= m)
            /\ Texts[files[last.path]] = TextWidget =>
                   \A conceptName \in {<<"w","i","d","g","e","t">>, <<"c","o","l","o","r">>} :
                       \E usage \in usages :
                           usage.concept = conceptName /\ usage.line = 1

\* C20: every continuation block is scanned, the last one included: every
\* concept token on an indented line of the document just indexed has a
\* usage occurrence in the document, whether or not the text ends with a
\* line feed or an unindented line.
C20_FinalBlockIsScanned ==
    Indexed =>
        LET lines == LinesOf(last.path)
            indented == {l \in 1..Len(lines) :
                            /\ hasIndentation(lines[l])
                            /\ ~isSectionHeader(trim(lines[l]))}
        IN  \A conceptName \in NamesOn(lines, indented) :
                \E usage \in OccurrencesOf(usedConceptIndex, last.path) :
                    usage.concept = conceptName

\* C22: change notifications are coalesced per document: once the quiet
\* period has passed and no timer is pending, every document that received
\* a text-change event has had its processFileUpdate call; an event for one
\* document does not cancel the pending update of another.
C22_EveryChangedDocumentIsUpdated ==
    textChangeTimeout = <<>> => changed = {}

\* The first lines (from 1) of the continuation blocks of a document: the
\* unindented lines that are no header.
AnchorLines(lines) ==
    {l \in 1..Len(lines) :
        ~hasIndentation(lines[l]) /\ ~isSectionHeader(trim(lines[l]))}

\* C21: within one continuation block (an unindented line and the indented
\* lines that continue it) each distinct concept name yields exactly one
\* usage occurrence, however many times its token appears in the block, and
\* a block with no token yields none: a name has as many usage occurrences
\* in the document just indexed as the document has blocks with its token.
C21_OneUsagePerNamePerBlock ==
    Indexed =>
        LET lines == LinesOf(last.path)
        IN  \A conceptName \in NamesOn(lines, 1..Len(lines)) :
                Len(SelectSeq(findConceptUsage(conceptName).concepts,
                              LAMBDA usage : usage.filePath = last.path))
                    = Cardinality({l \in AnchorLines(lines) :
                                      conceptName \in NamesOn(lines, BlockLines(lines, l))})

\* The header lines (from 1) of a document.
HeaderLines(lines) ==
    {h \in 1..Len(lines) : isSectionHeader(trim(lines[h]))}

\* C23: in usage extraction a header line closes the open continuation
\* block and starts a fresh one: the block text of no usage occurrence of
\* the document just indexed holds an indented line from before a header
\* together with an indented line from after it, nor the text of a header
\* line.
C23_HeaderClosesBlock ==
    Indexed =>
        LET lines == LinesOf(last.path)
            indented == {k \in 1..Len(lines) \ HeaderLines(lines) : hasIndentation(lines[k])}
        IN  \A usage \in OccurrencesOf(usedConceptIndex, last.path) :
                /\ \A h \in HeaderLines(lines) : indexOf(usage.content, lines[h]) < 0
                /\ \A h \in HeaderLines(lines) :
                       \A j \in {x \in indented : x < h}, k \in {x \in indented : x > h} :
                           ~(/\ indexOf(usage.content, lines[j] \o <<"\n">>) >= 0
                             /\ indexOf(usage.content, lines[k] \o <<"\n">>) >= 0)

\* The number of white-space characters a line begins with.
Indent(line) ==
    Cardinality({k \in 1..Len(line) : \A j \in 1..k : line[j] \in WhiteSpace})

\* The colon-delimited tokens of s from position `from` on, left to right:
\* the zero-based offset of the opening colon of each and its text.
RECURSIVE TokensFrom(_, _)
TokensFrom(s, from) ==
    LET starts == {i \in from..Len(s) : candidateRegexAt(s, i) > 0}
    IN  IF starts = {} THEN <<>>
        ELSE LET i == CHOOSE x \in starts : \A y \in starts : x <= y
             IN  <<[index |-> i - 1, text |-> SubSeq(s, i, candidateRegexAt(s, i))]>>
                 \o TokensFrom(s, candidateRegexAt(s, i) + 1)

\* The tokens of the list item on a raw line, with their offsets in the raw
\* line; none when the trimmed line is no list item.
ListItemTokens(line) ==
    LET item == TokensFrom(definitionMatch(trim(line)), 1)
    IN  [i \in 1..Len(item) |->
            [index |-> item[i].index + Indent(line), text |-> item[i].text]]

\* The lines (from 1) of a document that lie in a definitions section.
DefinitionsLines(lines) ==
    {l \in 1..Len(lines) \ HeaderLines(lines) :
        EnclosingSection(lines, l) = DefinitionsName}

\* Whether a name is made of characters of the concept-name alphabet only.
InAlphabet(conceptName) ==
    \A k \in 1..Len(conceptName) : conceptName[k] \in ConceptChars

\* A processFileUpdate call has just read and extracted the document at
\* last.path.
Extracting ==
    /\ last.op = "processFileUpdate"
    /\ last.how # "returned"
    /\ ~updates[Len(updates)].result.error

\* C24: on a definition list item a colon-delimited token whose inner text
\* has a character outside the concept-name alphabet is skipped without
\* error, and every token of the line that matches the alphabet is recorded
\* as a definition occurrence of that line.
C24_InvalidTokenIsSkipped ==
    Extracting =>
        LET lines == LinesOf(last.path)
            definitions == Range(updates[Len(updates)].result.definedConcepts)
        IN  \A l \in DefinitionsLines(lines) :
                \A token \in Range(ListItemTokens(lines[l])) :
                    InAlphabet(sliceColons(token.text))
                        <=> \E definition \in definitions :
                                /\ definition.concept = sliceColons(token.text)
                                /\ definition.line = l - 1

\* C24 happens: the document just extracted has a list item with the token
\* ':d e:' between valid ones, and f, named after it, is recorded.
C24_Witness ==
    /\ Extracting
    /\ Texts[files[last.path]] = TextNotes
    /\ \E token \in Range(ListItemTokens(LinesOf(last.path)[7])) :
           ~InAlphabet(sliceColons(token.text))
    /\ \E definition \in Range(updates[Len(updates)].result.definedConcepts) :
           definition.concept = <<"f">> /\ definition.line = 6

\* The definition occurrences the extraction just made recorded for line l
\* (from 1), in the order it recorded them.
DefinitionsAt(l) ==
    SelectSeq(updates[Len(updates)].result.definedConcepts,
              LAMBDA definition : definition.line = l - 1)

\* The tokens of the list item on a raw line that match the concept-name
\* alphabet, left to right.
ValidTokens(line) ==
    SelectSeq(ListItemTokens(line), LAMBDA token : InAlphabet(sliceColons(token.text)))

\* C25: the column of every definition occurrence is the offset, in the raw
\* line, of the opening colon of the token it was extracted from: the
\* occurrences of a line are, in order, those of the line's valid tokens,
\* each with the name and the offset of its token.
C25_DefinitionColumnIsTokenOffset ==
    Extracting =>
        LET lines == LinesOf(last.path)
        IN  \A l \in DefinitionsLines(lines) :
                \A i \in 1..Len(DefinitionsAt(l)) :
                    /\ i <= Len(ValidTokens(lines[l]))
                    /\ DefinitionsAt(l)[i].concept = sliceColons(ValidTokens(lines[l])[i].text)
                    /\ DefinitionsAt(l)[i].character = ValidTokens(lines[l])[i].index

\* C26: a list item that names the same concept twice yields one definition
\* occurrence of it, and the same name on separate list items yields one
\* per list item: every name a list item of a definitions section validly
\* names has exactly one definition occurrence with that line.
C26_DuplicateTokenIsRecordedOnce ==
    Extracting =>
        LET lines == LinesOf(last.path)
        IN  \A l \in DefinitionsLines(lines) :
                \A token \in Range(ValidTokens(lines[l])) :
                    Len(SelectSeq(DefinitionsAt(l),
                                  LAMBDA definition :
                                      definition.concept = sliceColons(token.text))) = 1

\* The words asked about: the names looked up and the inner text of the
\* token of TextNotes that is outside the concept-name alphabet.
Words == QueriedNames \cup {<<"d"," ","e">>}

\* C27: the definition-site side-query agrees with the extractor: for every
\* line L of the document just extracted and every word w,
\* isAConceptDefinition(L, w) is true exactly when the extraction recorded
\* a definition occurrence of w at line L.
C27_SideQueryAgreesWithExtractor ==
    Extracting =>
        LET lines == LinesOf(last.path)
        IN  \A l \in 1..Len(lines), word \in Words :
                isAConceptDefinition(lines, l - 1, word)
                    <=> \E definition \in Range(DefinitionsAt(l)) : definition.concept = word

\* C28: for every line of the document just extracted, the section found by
\* walking backward to the nearest header at or before the line is the
\* current section the extractors' forward scan holds at that line (the
\* latest header replaces every earlier one), and the forward scan's
\* definitions flag is true exactly when that section is 'definitions'.
C28_BackwardWalkAgreesWithForwardScan ==
    Extracting =>
        LET lines == LinesOf(last.path)
        IN  \A line \in 0..(Len(lines) - 1) :
                /\ sectionAt(lines, line) = forwardScan(lines, line).currentSection
                /\ forwardScan(lines, line).inDefinitionsSection
                       <=> sectionAt(lines, line) = DefinitionsName

\* C28 happens: the document just extracted has lines before any header, a
\* section of another name and, after it, a definitions section.
C28_Witness ==
    /\ Extracting
    /\ \E line \in 0..(Len(LinesOf(last.path)) - 1) :
           sectionAt(LinesOf(last.path), line) = <<>>
    /\ \E line \in 0..(Len(LinesOf(last.path)) - 1) :
           sectionAt(LinesOf(last.path), line) = <<"n","o","t","e","s">>
    /\ \E line \in 0..(Len(LinesOf(last.path)) - 1) :
           forwardScan(LinesOf(last.path), line).inDefinitionsSection

\* Whether the text of the document at filePath, on the line and between
\* the columns of a replacement, is oldName between two colons.
CoversToken(filePath, edit, oldName) ==
    /\ files[filePath] # 0
    /\ edit.line + 1 <= Len(LinesOf(filePath))
    /\ edit.start >= 1
    /\ edit.end + 1 <= Len(LinesOf(filePath)[edit.line + 1])
    /\ SubSeq(LinesOf(filePath)[edit.line + 1], edit.start, edit.end + 1)
           = <<":">> \o oldName \o <<":">>

\* C29: with the index up to date, every replacement of a rename plan
\* covers exactly the old name inside a ':old:' token of its document: the
\* text on its line from column + 1 to column + 1 + the length of the old
\* name is the old name, between the token's colons.
C29_ReplacementCoversOldName ==
    UpToDate =>
        \A oldName \in QueriedNames \cap DOMAIN usedConceptIndex :
            LET plan == provideRenameEdits(oldName, ValidName)
            IN  \A g \in 1..Len(plan.edits) :
                    \A i \in 1..Len(plan.edits[g].textEdits) :
                        CoversToken(plan.edits[g].filePath, plan.edits[g].textEdits[i],
                                    oldName)

\* C30: processFileUpdate(D) changes only D's contribution: each step of
\* the call, up to its await and after it, leaves the occurrences of every
\* other document E under every name, and their order, as they were in
\* both mappings.
C30_UpdateLeavesOtherDocuments ==
    [][last'.op \in {"processFileUpdate", "processFileUpdateEnd"} =>
          \A filePath \in Paths \ {last'.path} :
              /\ ConceptsOfFile(definedConceptIndex', filePath)
                     = ConceptsOfFile(definedConceptIndex, filePath)
              /\ ConceptsOfFile(usedConceptIndex', filePath)
                     = ConceptsOfFile(usedConceptIndex, filePath)]_vars

\* C30 happens: an update has replaced the occurrences of its document
\* while another document has occurrences in both mappings, under a name
\* both documents use.
C30_Witness ==
    /\ last.op = "processFileUpdateEnd"
    /\ last.how = "replaced"
    /\ \E filePath \in PlainPaths \ {last.path} :
           /\ DOMAIN ConceptsOfFile(definedConceptIndex, filePath) # {}
           /\ DOMAIN ConceptsOfFile(usedConceptIndex, filePath)
                  \cap DOMAIN ConceptsOfFile(usedConceptIndex, last.path) # {}

====
